---- MODULE Spec2Model ----
(***************************************************************************)
(* mudpatch: locating patch branches, creating the output branch and       *)
(* merging the patches into it (mudpatch/git_operations.py, driven by      *)
(* commands.merge_init).                                                   *)
(*                                                                         *)
(* A git name such as "origin/f/x" is held as the sequence of its          *)
(* "/"-separated parts, <<"origin", "f", "x">>: str.split("/") is then the *)
(* sequence itself, [-1] its last element and [0] its first.  Comparing a  *)
(* part with a whole name compares a one-element sequence with the name.   *)
(***************************************************************************)
EXTENDS Naturals, Sequences, FiniteSets

VARIABLES
    heads,          \* repo.heads: local branch name -> tip commit
    tags,           \* repo.tags: tag name -> commit
    remotes,        \* repo.remotes: sequence of [name, refs]
    tracking,       \* local branch name -> remote reference it tracks
    HEAD,           \* the checked-out branch
    mergeHead,      \* the branch of the merge in progress, or NoName
    args,           \* merge_init's arguments: patches, base, output, cleanup
    pc,             \* position of the run
    i,              \* get_patch_branches: index of the patch being located
    patch_branches, \* get_patch_branches: the list built so far
    k,              \* merge_patches_into_output: index of the next merge
    attempts,       \* the calls of repo.git.merge: list entry and branch
    merged_ok,      \* number of repo.git.merge calls that returned
    ops,            \* repository commands issued, in call order
    fallback_head,  \* the branch get_fallback_head returned, or NoName
    err,            \* the exception raised, or NoErr
    result,         \* merge_patches_into_output's return: "True", "False", "none"
    initial,        \* the local branches and checked-out branch at the start
    caught,         \* the exception merge_patches_into_output caught, or "none"
    call            \* a stand-alone get_remote_ref call: arguments and result

vars == <<heads, tags, remotes, tracking, HEAD, mergeHead, args, pc, i,
          patch_branches, k, attempts, merged_ok, ops, fallback_head, err,
          result, initial, caught, call>>

repoVars == <<heads, tags, remotes, tracking, HEAD, mergeHead>>
runVars == <<i, patch_branches, k, attempts, merged_ok, ops, fallback_head,
             err, result>>

----------------------------------------------------------------------------
(* Bounds *)

MaxPatches == 2

----------------------------------------------------------------------------
(* Names and commits *)

NoName == <<>>
NoRemote == ""
NoErr == [type |-> "none"]

N_main == <<"main">>
N_out == <<"out">>
N_x == <<"x">>
N_y == <<"y">>
N_fx == <<"f", "x">>

\* Names in git's reference order (repo.heads and remote.refs list the
\* references sorted by path).
RefOrder == <<N_fx, N_main, <<"master">>, N_out, <<"trunk">>, N_x, N_y>>

RECURSIVE IndexOf(_, _, _)
IndexOf(seq, e, from) ==
    IF from > Len(seq) THEN 0
    ELSE IF seq[from] = e THEN from
    ELSE IndexOf(seq, e, from + 1)

Rank(name) == IndexOf(RefOrder, name, 1)

\* A commit: the root it started from, whether the manifest commit is on it,
\* and the roots of the branches merged into it, in merge order.
Commit(id) == [base |-> id, manifest |-> FALSE, merged |-> <<>>]

LocalCommitId(name) == Rank(name)
RemoteCommitId(remote, path) ==
    (IF remote = "origin" THEN 10 ELSE 20) + Rank(path)

RemoteRef(remote, path) ==
    [name |-> <<remote>> \o path, commit |-> Commit(RemoteCommitId(remote, path))]

\* The references of a remote exposing the given set of paths, sorted.
RefsOf(remote, paths) ==
    LET sorted == SelectSeq(RefOrder, LAMBDA n : n \in paths)
    IN [j \in 1..Len(sorted) |-> RemoteRef(remote, sorted[j])]

Remote(name, paths) == [name |-> name, refs |-> RefsOf(name, paths)]

----------------------------------------------------------------------------
(* The repository handle *)

\* repo.heads as a list.
HeadList(hs) == SelectSeq(RefOrder, LAMBDA n : n \in DOMAIN hs)

get_local_head_none(hs, head_name) == NoName

\* get_local_head: the head named head_name, or NoName.
get_local_head(hs, head_name) ==
    LET list == HeadList(hs)
        at == IndexOf(list, head_name, 1)
    IN IF at = 0 THEN NoName ELSE list[at]

\* get_tag: the tag named tag_name, or NoName.
get_tag(ts, tag_name) ==
    IF tag_name \in DOMAIN ts THEN tag_name ELSE NoName

FallbackOptions == <<N_main, <<"master">>, <<"trunk">>>>

RECURSIVE FirstFallback(_, _, _)
FirstFallback(hs, options, from) ==
    IF from > Len(options) THEN NoName
    ELSE IF get_local_head(hs, options[from]) # NoName THEN options[from]
    ELSE FirstFallback(hs, options, from + 1)

get_fallback_head_first(hs) == HeadList(hs)[1]

\* get_fallback_head: the first of main, master, trunk that is a local
\* branch, otherwise repo.heads[0].
get_fallback_head(hs) ==
    LET found == FirstFallback(hs, FallbackOptions, 1)
    IN IF found # NoName THEN found ELSE HeadList(hs)[1]

\* remote_ref.name.split("/")[-1]
LastPart(name) == name[Len(name)]

\* remote_ref.name.split("/")[-1] == ref_name
RefMatches(remote_ref, ref_name) == <<LastPart(remote_ref.name)>> = ref_name

RECURSIVE AllRefs(_, _)
AllRefs(rs, from) ==
    IF from > Len(rs) THEN <<>>
    ELSE rs[from].refs \o AllRefs(rs, from + 1)

RECURSIVE FirstRemoteNamed(_, _, _)
FirstRemoteNamed(rs, remote, from) ==
    IF from > Len(rs) THEN 0
    ELSE IF rs[from].name = remote THEN from
    ELSE FirstRemoteNamed(rs, remote, from + 1)

\* The search of get_remote_ref: [status, ref] where status is "none" (the
\* function returns None), "raise" (MultipleRemoteReferences) or "found".
FindRemoteRef(rs, ref_name, remote) ==
    IF Len(rs) = 0 THEN [status |-> "none"]
    ELSE IF remote # NoRemote
    THEN LET at == FirstRemoteNamed(rs, remote, 1)
             found == IF at = 0 THEN <<>>
                      ELSE SelectSeq(rs[at].refs,
                                     LAMBDA r : RefMatches(r, ref_name))
         IN IF Len(found) = 0 THEN [status |-> "none"]
            ELSE [status |-> "found", ref |-> found[1]]
    ELSE LET found_refs == SelectSeq(AllRefs(rs, 1),
                                     LAMBDA r : RefMatches(r, ref_name))
         IN IF Len(found_refs) > 1 THEN [status |-> "raise"]
            ELSE IF Len(found_refs) = 1
                 THEN [status |-> "found", ref |-> found_refs[1]]
                 ELSE [status |-> "none"]

create_head_nothing(hs, name, commit) == hs

\* repo.create_head(name, commit): a new local branch.
create_head(hs, name, commit) ==
    [n \in DOMAIN hs \cup {name} |-> IF n = name THEN commit ELSE hs[n]]

\* found_head.set_tracking_branch(found_ref)
set_tracking_branch(tr, name, ref) ==
    [n \in DOMAIN tr \cup {name} |-> IF n = name THEN ref.name ELSE tr[n]]

delete_head_all(hs, name) == [n \in {} |-> hs[n]]

delete_head_keep(hs, name) == hs

\* git branch -D name
delete_head(hs, name) == [n \in DOMAIN hs \ {name} |-> hs[n]]

----------------------------------------------------------------------------
(* Inputs *)

PatchNames == {N_x, N_y, N_fx}
Titles == <<"p1", "p2", "p3", "p4">>

Patch(j, branch) == [title |-> Titles[j], downstream_branch |-> branch]

PatchLists ==
    UNION {[1..n -> PatchNames] : n \in 0..MaxPatches}

MkPatches(branches) == [j \in 1..Len(branches) |-> Patch(j, branches[j])]

LocalSets == {{N_main} \cup s : s \in SUBSET {N_x, N_out}}

OriginPaths == SUBSET {N_x, N_y, N_fx}
UpstreamPaths == {{N_x}, {N_fx}, {N_x, N_fx}}

RemoteConfigs ==
    {<<>>}
    \cup {<<Remote("origin", o)>> : o \in OriginPaths}
    \cup {<<Remote("origin", o), Remote("upstream", u)>> :
              o \in OriginPaths \ {{}}, u \in UpstreamPaths}
    \cup {<<Remote("upstream", u), Remote("origin", o)>> :
              o \in OriginPaths \ {{}}, u \in UpstreamPaths}

Bases == {N_main, N_x, <<"v1">>, <<"nope">>}


TagCommit == Commit(30)

\* The local tags: v1, and x, a name that may also be a local branch.
TagNames == {<<"v1">>, N_x}
TagCommitOf(name) == IF name = N_x THEN Commit(31) ELSE TagCommit

Op(op, idx, name) == [op |-> op, idx |-> idx, name |-> name]

----------------------------------------------------------------------------
(* Initial states: a repository and the arguments of one merge_init run *)

Init ==
    \E locals \in LocalSets, rc \in RemoteConfigs, pl \in PatchLists,
       base \in Bases, cleanup \in BOOLEAN :
        /\ heads = [n \in locals |-> Commit(LocalCommitId(n))]
        /\ tags = [n \in TagNames |-> TagCommitOf(n)]
        /\ remotes = rc
        /\ tracking = [n \in {} |-> NoName]
        /\ HEAD = N_main
        /\ mergeHead = NoName
        /\ args = [patches |-> MkPatches(pl), base |-> base,
                   output |-> N_out, cleanup |-> cleanup]
        /\ pc = "start"
        /\ i = 1
        /\ patch_branches = <<>>
        /\ k = 1
        /\ attempts = <<>>
        /\ merged_ok = 0
        /\ ops = <<>>
        /\ fallback_head = NoName
        /\ err = NoErr
        /\ result = "none"
        /\ initial = [heads |-> [n \in locals |-> Commit(LocalCommitId(n))],
                      HEAD |-> N_main]
        /\ caught = "none"
        /\ call = [fn |-> "none"]

----------------------------------------------------------------------------
(* commands.merge_init: loading the repository and the patches *)

OnRuntimeError_continue(step) ==
    IF step = "write" THEN "merge_checkout" ELSE "exit1"

\* except RuntimeError as err: LOG.error(...); sys.exit(1), around each of
\* the steps get_patch_branches, create_output_branch and
\* write_patch_config_to_branch.
OnRuntimeError(step) == "exit1"

\* The positions at which the process has ended.
Ended == {"exit1", "returned", "raised"}

\* The exit code of the process that ended at position p: sys.exit(1), an
\* exception that reached the top level, or merge_init returning.
ExitCode(p) == IF p = "returned" THEN 0 ELSE 1

Begin ==
    /\ pc = "start"
    /\ pc' = IF Len(args.patches) = 0 THEN "create" ELSE "locate"
    /\ UNCHANGED <<repoVars, runVars, args, initial, caught, call>>

----------------------------------------------------------------------------
(* get_patch_branches: one iteration of the loop over the patches *)

\* Where the run goes once the patch at index j has been located.
AfterLocate(j) == IF j >= Len(args.patches) THEN "create" ELSE "locate"

LocatePatch ==
    /\ pc = "locate"
    /\ i <= Len(args.patches)
    /\ LET patch == args.patches[i]
           name == patch.downstream_branch
           local == get_local_head(heads, name)
           looked == Append(ops, Op("get_local_head", i, name))
           found == FindRemoteRef(remotes, name, NoRemote)
           searched == Append(looked, Op("get_remote_ref", i, name))
       IN IF local # NoName
          THEN /\ patch_branches' = Append(patch_branches, <<patch, local>>)
               /\ ops' = looked
               /\ i' = i + 1
               /\ pc' = AfterLocate(i)
               /\ UNCHANGED <<heads, tracking, err>>
          ELSE IF found.status = "raise"
          THEN /\ err' = [type |-> "MultipleRemoteReferences",
                          ref_name |-> name]
               /\ ops' = searched
               /\ pc' = OnRuntimeError("locate")
               /\ UNCHANGED <<heads, tracking, patch_branches, i>>
          ELSE IF found.status = "none"
          THEN /\ err' = [type |-> "UnknownBranchError", branch |-> name,
                          title |-> patch.title]
               /\ ops' = searched
               /\ pc' = OnRuntimeError("locate")
               /\ UNCHANGED <<heads, tracking, patch_branches, i>>
          ELSE /\ heads' = create_head(heads, name, found.ref.commit)
               /\ tracking' = set_tracking_branch(tracking, name, found.ref)
               /\ patch_branches' = Append(patch_branches, <<patch, name>>)
               /\ ops' = Append(searched, Op("create_head", i, name))
               /\ i' = i + 1
               /\ pc' = AfterLocate(i)
               /\ UNCHANGED err
    /\ UNCHANGED <<tags, remotes, HEAD, mergeHead, args, k, attempts,
                   merged_ok, fallback_head, result, initial, caught, call>>

----------------------------------------------------------------------------
(* create_output_branch *)

get_local_base_object_tag_first(hs, ts, base) ==
    IF get_tag(ts, base) # NoName
    THEN [kind |-> "tag", commit |-> ts[base]]
    ELSE IF get_local_head(hs, base) # NoName
         THEN [kind |-> "head", commit |-> hs[base]]
         ELSE [kind |-> "none"]

\* get_local_base_object: the branch named base, else the tag named base,
\* else nothing (UnknownReferenceError).
get_local_base_object(hs, ts, base) ==
    LET base_branch == get_local_head(hs, base)
        base_tag == get_tag(ts, base)
    IN IF base_branch # NoName
       THEN [kind |-> "head", commit |-> hs[base_branch]]
       ELSE IF base_tag # NoName
            THEN [kind |-> "tag", commit |-> ts[base_tag]]
            ELSE [kind |-> "none"]

create_output_branch_at_HEAD(hs, ts, base, output) ==
    LET base_object == get_local_base_object(hs, ts, base)
    IN IF base_object.kind = "none"
       THEN [status |-> "UnknownReferenceError", ref_name |-> base,
             heads |-> hs]
       ELSE IF get_local_head(hs, output) # NoName
       THEN [status |-> "BranchExistsError", ref_name |-> output,
             heads |-> hs]
       ELSE [status |-> "ok", ref_name |-> output,
             heads |-> create_head(hs, output, hs[HEAD])]

create_output_branch_create_first(hs, ts, base, output) ==
    LET base_object == get_local_base_object(hs, ts, base)
        created == create_head(hs, output, base_object.commit)
    IN IF base_object.kind = "none"
       THEN [status |-> "UnknownReferenceError", ref_name |-> base,
             heads |-> hs]
       ELSE IF get_local_head(hs, output) # NoName
       THEN [status |-> "BranchExistsError", ref_name |-> output,
             heads |-> created]
       ELSE [status |-> "ok", ref_name |-> output, heads |-> created]

create_output_branch_output_first(hs, ts, base, output) ==
    LET base_object == get_local_base_object(hs, ts, base)
    IN IF get_local_head(hs, output) # NoName
       THEN [status |-> "BranchExistsError", ref_name |-> output,
             heads |-> hs]
       ELSE IF base_object.kind = "none"
       THEN [status |-> "UnknownReferenceError", ref_name |-> base,
             heads |-> hs]
       ELSE [status |-> "ok", ref_name |-> output,
             heads |-> create_head(hs, output, base_object.commit)]

\* create_output_branch: the exception raised or "ok", and repo.heads after.
create_output_branch(hs, ts, base, output) ==
    LET base_object == get_local_base_object(hs, ts, base)
        existing_output_branch == get_local_head(hs, output)
    IN IF base_object.kind = "none"
       THEN [status |-> "UnknownReferenceError", ref_name |-> base,
             heads |-> hs]
       ELSE IF existing_output_branch # NoName
       THEN [status |-> "BranchExistsError", ref_name |-> output,
             heads |-> hs]
       ELSE [status |-> "ok", ref_name |-> output,
             heads |-> create_head(hs, output, base_object.commit)]

CreateOutputBranch ==
    /\ pc = "create"
    /\ LET created == create_output_branch(heads, tags, args.base, args.output)
       IN /\ heads' = created.heads
          /\ IF created.status = "ok"
             THEN /\ ops' = Append(ops, Op("create_head", 0, args.output))
                  /\ pc' = "write"
                  /\ UNCHANGED err
             ELSE /\ err' = [type |-> created.status,
                             ref_name |-> created.ref_name]
                  /\ pc' = OnRuntimeError("create")
                  /\ UNCHANGED ops
    /\ UNCHANGED <<tags, remotes, tracking, HEAD, mergeHead, args, i,
                   patch_branches, k, attempts, merged_ok, fallback_head,
                   result, initial, caught, call>>

----------------------------------------------------------------------------
(* write_patch_config_to_branch: check the output branch out, write the    *)
(* manifest, git add, git commit.  The repositories modelled have a        *)
(* working directory.  Each git command either returns or raises           *)
(* CommandError.                                                           *)

GitOutcomes == {"ok", "fail"}

ManifestCommit_none(c) == c

\* The commit made by `git commit` on top of commit c.
ManifestCommit(c) == [c EXCEPT !.manifest = TRUE]

WritePatchConfig ==
    /\ pc = "write"
    /\ \E checkout \in GitOutcomes, commit \in GitOutcomes :
        IF checkout = "fail"
        THEN /\ err' = [type |-> "CheckoutError", ref_name |-> args.output]
             /\ ops' = Append(ops, Op("checkout", 0, args.output))
             /\ pc' = OnRuntimeError("write")
             /\ UNCHANGED <<heads, HEAD>>
        ELSE IF commit = "fail"
        THEN /\ HEAD' = args.output
             /\ err' = [type |-> "CommitError", ref_name |-> args.output]
             /\ ops' = ops \o <<Op("checkout", 0, args.output),
                                Op("commit", 0, args.output)>>
             /\ pc' = OnRuntimeError("write")
             /\ UNCHANGED heads
        ELSE /\ HEAD' = args.output
             /\ heads' = [heads EXCEPT
                            ![args.output] = ManifestCommit(heads[args.output])]
             /\ ops' = ops \o <<Op("checkout", 0, args.output),
                                Op("commit", 0, args.output)>>
             /\ pc' = "merge_checkout"
             /\ UNCHANGED err
    /\ UNCHANGED <<tags, remotes, tracking, mergeHead, args, i,
                   patch_branches, k, attempts, merged_ok, fallback_head,
                   result, initial, caught, call>>

----------------------------------------------------------------------------
(* merge_patches_into_output *)

MergeCommit_drop(c, merged) == c

\* The commit `git merge` leaves on the checked-out branch.
MergeCommit(c, merged) == [c EXCEPT !.merged = Append(c.merged, merged.base)]

NextEntry_skip(j) == j + 2

\* The for loop's next entry.
NextEntry(j) == j + 1

AfterMergeFailure_skip_abort(clean_up) ==
    IF clean_up THEN "fallback_checkout" ELSE "returned"

AfterMergeFailure_always_clean(clean_up) == "abort"

\* Where the run goes after a failed merge.
AfterMergeFailure(clean_up) == IF clean_up THEN "abort" ELSE "returned"

AfterCheckoutFailure_clean(clean_up) == IF clean_up THEN "abort" ELSE "returned"

\* Where the run goes when the checkout of the output branch failed.
AfterCheckoutFailure(clean_up) == "returned"

MergeFailureResult_true == "True"

\* The value returned after a failed merge.
MergeFailureResult == "False"

\* checkout_branch(output_branch); CheckoutError makes the function return
\* False.  With no patch to merge the loop is skipped and it returns True.
MergeCheckout ==
    /\ pc = "merge_checkout"
    /\ ops' = Append(ops, Op("checkout", 0, args.output))
    /\ \E checkout \in GitOutcomes :
        IF checkout = "fail"
        THEN /\ caught' = "CheckoutError"
             /\ result' = "False"
             /\ pc' = AfterCheckoutFailure(args.cleanup)
             /\ UNCHANGED HEAD
        ELSE /\ HEAD' = args.output
             /\ IF Len(patch_branches) = 0
                THEN result' = "True" /\ pc' = "returned"
                ELSE result' = result /\ pc' = "merging"
             /\ UNCHANGED caught
    /\ UNCHANGED <<heads, tags, remotes, tracking, mergeHead, args, i,
                   patch_branches, k, attempts, merged_ok, fallback_head,
                   err, initial, call>>

\* One iteration of the loop: repo.git.merge(patch_branch).  A merge that
\* raises leaves the output branch in merging state (the docstring's words),
\* and the except branch either starts the cleanup or returns False.
MergeStep ==
    /\ pc = "merging"
    /\ k <= Len(patch_branches)
    /\ LET patch_branch == patch_branches[k][2]
       IN /\ attempts' = Append(attempts,
                                  [entry |-> k, branch |-> patch_branch])
          /\ ops' = Append(ops, Op("merge", k, patch_branch))
          /\ \E merge \in GitOutcomes :
              IF merge = "ok"
              THEN /\ heads' = [heads EXCEPT ![HEAD] =
                                   MergeCommit(heads[HEAD], heads[patch_branch])]
                   /\ merged_ok' = merged_ok + 1
                   /\ k' = NextEntry(k)
                   /\ IF NextEntry(k) > Len(patch_branches)
                      THEN result' = "True" /\ pc' = "returned"
                      ELSE result' = result /\ pc' = "merging"
                   /\ UNCHANGED <<mergeHead, caught>>
              ELSE /\ mergeHead' = patch_branch
                   /\ caught' = "CommandError"
                   /\ pc' = AfterMergeFailure(args.cleanup)
                   /\ result' = IF args.cleanup THEN result
                                ELSE MergeFailureResult
                   /\ UNCHANGED <<heads, merged_ok, k>>
    /\ UNCHANGED <<tags, remotes, tracking, HEAD, args, i, patch_branches,
                   fallback_head, err, initial, call>>

\* repo.git.merge(abort=True), then get_fallback_head(repo).
CleanupAbort ==
    /\ pc = "abort"
    /\ \E abort \in GitOutcomes :
        IF abort = "fail"
        THEN /\ ops' = Append(ops, Op("merge_abort", 0, HEAD))
             /\ err' = [type |-> "GitCommandError", ref_name |-> HEAD]
             /\ pc' = "raised"
             /\ UNCHANGED <<mergeHead, fallback_head>>
        ELSE /\ mergeHead' = NoName
             /\ fallback_head' = get_fallback_head(heads)
             /\ ops' = ops \o <<Op("merge_abort", 0, HEAD),
                                Op("get_fallback_head", 0,
                                   get_fallback_head(heads))>>
             /\ pc' = "fallback_checkout"
             /\ UNCHANGED err
    /\ UNCHANGED <<heads, tags, remotes, tracking, HEAD, args, i,
                   patch_branches, k, attempts, merged_ok, result, initial,
                   caught, call>>

\* fallback_head.checkout()
CleanupCheckout ==
    /\ pc = "fallback_checkout"
    /\ ops' = Append(ops, Op("checkout", 0, fallback_head))
    /\ \E checkout \in GitOutcomes :
        IF checkout = "fail"
        THEN /\ err' = [type |-> "GitCommandError", ref_name |-> fallback_head]
             /\ pc' = "raised"
             /\ UNCHANGED HEAD
        ELSE /\ HEAD' = fallback_head
             /\ pc' = "delete"
             /\ UNCHANGED err
    /\ UNCHANGED <<heads, tags, remotes, tracking, mergeHead, args, i,
                   patch_branches, k, attempts, merged_ok, fallback_head,
                   result, initial, caught, call>>

\* repo.git.branch("-D", output_branch), then return False.  git refuses to
\* delete the checked-out branch.
CleanupDelete ==
    /\ pc = "delete"
    /\ ops' = Append(ops, Op("branch_D", 0, args.output))
    /\ \E delete \in GitOutcomes :
        IF delete = "fail" \/ HEAD = args.output
        THEN /\ err' = [type |-> "GitCommandError", ref_name |-> args.output]
             /\ pc' = "raised"
             /\ UNCHANGED <<heads, tracking, result>>
        ELSE /\ heads' = delete_head(heads, args.output)
             /\ tracking' = delete_head(tracking, args.output)
             /\ result' = MergeFailureResult
             /\ pc' = "returned"
             /\ UNCHANGED err
    /\ UNCHANGED <<tags, remotes, HEAD, mergeHead, args, i, patch_branches,
                   k, attempts, merged_ok, fallback_head, initial, caught,
                   call>>

----------------------------------------------------------------------------
(* get_remote_ref called on its own, with or without a remote name *)

RemoteNames == {NoRemote, "origin", "upstream"}

CallGetRemoteRef ==
    /\ pc = "start"
    /\ \E ref_name \in PatchNames, remote \in RemoteNames :
        LET found == FindRemoteRef(remotes, ref_name, remote)
            exists == get_local_head(heads, ref_name) # NoName
        IN IF found.status = "found" /\ ~exists
           THEN /\ heads' = create_head(heads, ref_name, found.ref.commit)
                /\ tracking' = set_tracking_branch(tracking, ref_name, found.ref)
                /\ call' = [fn |-> "get_remote_ref", ref_name |-> ref_name,
                            remote |-> remote, status |-> "found",
                            returned |-> ref_name, before |-> heads]
           ELSE /\ call' = [fn |-> "get_remote_ref", ref_name |-> ref_name,
                            remote |-> remote,
                            status |-> IF found.status = "found"
                                       THEN "OSError" ELSE found.status,
                            returned |-> NoName, before |-> heads]
                /\ UNCHANGED <<heads, tracking>>
    /\ pc' = "called"
    /\ UNCHANGED <<tags, remotes, HEAD, mergeHead, args, runVars, initial, caught>>

----------------------------------------------------------------------------

Next ==
    \/ Begin
    \/ LocatePatch
    \/ CreateOutputBranch
    \/ WritePatchConfig
    \/ MergeCheckout
    \/ MergeStep
    \/ CleanupAbort
    \/ CleanupCheckout
    \/ CleanupDelete
    \/ CallGetRemoteRef

Spec == Init /\ [][Next]_vars

----------------------------------------------------------------------------
(* Properties of merge_patches_into_output *)

\* A repo.git.merge call of this run raised.
MergeFailed == Len(attempts) > merged_ok

\* The entry of patch_branches whose merge raised.
FailedEntry == Len(attempts)

\* C1: the merges attempted in a run are a prefix of patch_branches in list
\* order; no entry is skipped, reordered or merged twice, and entry k+1 is
\* attempted only after the merge of entry k has returned.
C1_MergesFollowListOrder ==
    /\ Len(attempts) <= Len(patch_branches)
    /\ \A j \in 1..Len(attempts) :
          /\ attempts[j].entry = j
          /\ attempts[j].branch = patch_branches[j][2]
    /\ merged_ok <= Len(attempts)
    /\ Len(attempts) <= merged_ok + 1
    /\ result = "True" => Len(attempts) = Len(patch_branches)

C1_Witness ==
    /\ pc = "returned"
    /\ Len(attempts) = 2
    /\ attempts[1].branch # attempts[2].branch

\* C2: when a merge failed and clean_up is set, then on return the output
\* branch is no longer a local branch, no merge is in progress and the
\* checked-out branch is the one get_fallback_head gives.
C2_CleanupOnFailure ==
    (pc = "returned" /\ args.cleanup /\ MergeFailed) =>
        /\ args.output \notin DOMAIN heads
        /\ mergeHead = NoName
        /\ HEAD = fallback_head
        /\ HEAD = get_fallback_head(heads)

C2_Witness ==
    /\ pc = "returned"
    /\ args.cleanup
    /\ MergeFailed

\* C3: when a merge failed at entry f and clean_up is not set, the failed
\* merge is the last repository command of the run (no abort, checkout or
\* branch deletion follows); on return the output branch exists, is checked
\* out, has the merge of entry f in progress and carries the merges of the
\* entries before f.
C3_LeftDirtyOnFailure ==
    (pc = "returned" /\ ~args.cleanup /\ MergeFailed) =>
        /\ result = "False"
        /\ args.output \in DOMAIN heads
        /\ HEAD = args.output
        /\ mergeHead = patch_branches[FailedEntry][2]
        /\ heads[args.output].merged =
              [j \in 1..(FailedEntry - 1) |-> heads[patch_branches[j][2]].base]
        /\ ops[Len(ops)] = Op("merge", FailedEntry, mergeHead)
        /\ \A j \in 1..Len(ops) : ops[j].op \notin {"merge_abort", "branch_D"}

C3_Witness ==
    /\ pc = "returned"
    /\ ~args.cleanup
    /\ MergeFailed
    /\ merged_ok >= 1

\* C4: whatever the git commands do, merge_patches_into_output ends by
\* returning a boolean; no failure of a merge or of a cleanup step leaves it
\* as an exception.
C4_NoExceptionEscapes == pc # "raised"

----------------------------------------------------------------------------
(* Properties of get_patch_branches, get_remote_ref, create_output_branch *)

\* A remote reference's short name: its name without the leading remote.
ShortName(remote_ref) == Tail(remote_ref.name)

\* The positions in repo.remotes of the remotes that expose a reference
\* whose short name is name.
RemotesExposing(name) ==
    {r \in 1..Len(remotes) :
        \E q \in 1..Len(remotes[r].refs) : ShortName(remotes[r].refs[q]) = name}

\* The reference of remote r whose short name is name.
ExposedRef(r, name) ==
    LET q == CHOOSE q \in 1..Len(remotes[r].refs) :
                 ShortName(remotes[r].refs[q]) = name
    IN remotes[r].refs[q]

\* name is a local branch of the repository the run started on, or exactly
\* one remote exposes it.
Resolvable(name) ==
    \/ name \in DOMAIN initial.heads
    \/ Cardinality(RemotesExposing(name)) = 1

\* name is neither a local branch nor exposed by any remote.
Missing(name) ==
    /\ name \notin DOMAIN initial.heads
    /\ RemotesExposing(name) = {}

BranchOf(j) == args.patches[j].downstream_branch

\* The first patch whose branch is missing, or 0.
FirstMissing ==
    LET missing == {j \in 1..Len(args.patches) : Missing(BranchOf(j))}
    IN IF missing = {} THEN 0
       ELSE CHOOSE j \in missing : \A q \in missing : j <= q

\* get_patch_branches raised.
LocateRaised ==
    /\ pc = "exit1"
    /\ err.type \in {"UnknownBranchError", "MultipleRemoteReferences"}

\* C5: when get_patch_branches or create_output_branch raises, the local
\* branches, their tips and the checked-out branch are those the run started
\* with.
C5_FailFastLeavesRepository ==
    (/\ pc = "exit1"
     /\ err.type \in {"UnknownBranchError", "MultipleRemoteReferences",
                      "UnknownReferenceError", "BranchExistsError"})
        => /\ heads = initial.heads
           /\ HEAD = initial.HEAD

\* C6: when every patch's downstream_branch is resolvable, get_patch_branches
\* does not raise, and the list it returns has one pair per patch, in input
\* order, each with a local branch named as the patch's downstream_branch.
C6_LocatesEveryPatchInOrder ==
    (\A j \in 1..Len(args.patches) : Resolvable(BranchOf(j))) =>
        /\ ~LocateRaised
        /\ pc = "create" =>
              /\ Len(patch_branches) = Len(args.patches)
              /\ \A j \in 1..Len(args.patches) :
                    /\ patch_branches[j][1] = args.patches[j]
                    /\ patch_branches[j][2] = BranchOf(j)
                    /\ patch_branches[j][2] \in DOMAIN heads

\* C7: when some patch's downstream_branch is neither local nor on any
\* remote (and the patches before the first such one are resolvable),
\* get_patch_branches returns no list, raises UnknownBranchError with the
\* title and branch of the first such patch, and does no lookup, search or
\* branch creation for a later patch.
C7_FirstMissingPatchRaises ==
    (/\ FirstMissing # 0
     /\ \A j \in 1..(FirstMissing - 1) : Resolvable(BranchOf(j))) =>
        /\ pc \in {"start", "locate", "exit1", "called"}
        /\ pc = "exit1" =>
              err = [type |-> "UnknownBranchError",
                     branch |-> BranchOf(FirstMissing),
                     title |-> args.patches[FirstMissing].title]
        /\ \A q \in 1..Len(ops) : ops[q].idx <= FirstMissing

\* The position in repo.remotes of the remote called name, or 0.
RemoteAt(name) == FirstRemoteNamed(remotes, name, 1)

\* A stand-alone get_remote_ref call has returned or raised, for a name that
\* was not a local branch.
Called == call.fn = "get_remote_ref" /\ call.ref_name \notin DOMAIN call.before

\* C8: when two distinct remotes expose ref_name, get_remote_ref without a
\* remote raises MultipleRemoteReferences and creates no branch; with either
\* remote named it creates the local branch at that remote's reference,
\* tracking it, whatever the order of repo.remotes.
C8_AmbiguousNameNeedsRemote ==
    (Called /\ Cardinality(RemotesExposing(call.ref_name)) >= 2) =>
        /\ call.remote = NoRemote =>
              /\ call.status = "raise"
              /\ heads = call.before
        /\ (call.remote # NoRemote /\ RemoteAt(call.remote) # 0) =>
              /\ call.status = "found"
              /\ DOMAIN heads = DOMAIN call.before \cup {call.ref_name}
              /\ heads[call.ref_name] =
                    ExposedRef(RemoteAt(call.remote), call.ref_name).commit
              /\ tracking[call.ref_name] = <<call.remote>> \o call.ref_name

\* The remotes a get_remote_ref call searches that expose the name.
ExposingSearched ==
    IF call.remote = NoRemote THEN RemotesExposing(call.ref_name)
    ELSE {r \in RemotesExposing(call.ref_name) : r = RemoteAt(call.remote)}

\* C9: get_remote_ref matches a remote reference exactly when its short name
\* is ref_name: a name exposed by one searched remote resolves to that
\* reference, nothing else resolves, and MultipleRemoteReferences is raised
\* only when more than one remote exposes the name.
C9_MatchesByShortName ==
    Called =>
        /\ call.status = "found" =>
              /\ ExposingSearched # {}
              /\ Tail(tracking[call.ref_name]) = call.ref_name
        /\ Cardinality(ExposingSearched) = 1 => call.status = "found"
        /\ call.status = "raise" =>
              Cardinality(RemotesExposing(call.ref_name)) > 1

\* create_output_branch is about to run and finds the output name taken.
OutputTaken == pc = "create" /\ args.output \in DOMAIN heads

\* create_output_branch raised BranchExistsError and changed nothing.
RaisesBranchExistsUnchanged ==
    /\ pc' = "exit1"
    /\ err'.type = "BranchExistsError"
    /\ UNCHANGED <<heads, tags, tracking, HEAD, mergeHead>>

BaseKnown == get_local_base_object(heads, tags, args.base).kind # "none"

----------------------------------------------------------------------------
(* Further properties of create_output_branch and merge_patches_into_output *)

\* create_output_branch returns the new branch.
OutputCreated == pc = "create" /\ pc' = "write"

\* The commit of the reference args.base names: the local branch of that
\* name if there is one, else the tag.
BaseCommit ==
    IF args.base \in DOMAIN heads THEN heads[args.base] ELSE tags[args.base]

\* C11: on success create_output_branch adds exactly one local branch, named
\* output, at the commit of the resolved base; every other branch, the tags,
\* the checked-out branch and the working tree are unchanged.
C11_CreateAddsOnlyOutput ==
    [][OutputCreated =>
          /\ args.output \notin DOMAIN heads
          /\ DOMAIN heads' = DOMAIN heads \cup {args.output}
          /\ heads'[args.output] = BaseCommit
          /\ \A n \in DOMAIN heads : heads'[n] = heads[n]
          /\ UNCHANGED <<HEAD, mergeHead, tags, tracking, remotes>>]_vars

C11_Witness ==
    /\ pc = "write"
    /\ args.base = <<"v1">>
    /\ args.output \in DOMAIN heads
    /\ HEAD # args.output

\* C12: when the checkout of the output branch fails at the start of
\* merge_patches_into_output, the function returns False at once, with or
\* without clean_up: no merge is attempted, nothing is aborted, no fallback
\* is checked out and the output branch is not deleted.
C12_CheckoutFailureEndsRun ==
    caught = "CheckoutError" =>
        /\ pc = "returned"
        /\ result = "False"
        /\ attempts = <<>>
        /\ mergeHead = NoName
        /\ args.output \in DOMAIN heads
        /\ ops[Len(ops)] = Op("checkout", 0, args.output)
        /\ \A j \in 1..Len(ops) :
              ops[j].op \notin {"merge", "merge_abort", "get_fallback_head",
                                "branch_D"}

C12_Witness ==
    /\ caught = "CheckoutError"
    /\ args.cleanup
    /\ Len(patch_branches) > 0

----------------------------------------------------------------------------
(* get_fallback_head called on its own, on every repository with at least  *)
(* one local branch out of the names of RefOrder                            *)

BranchUniverse == {RefOrder[j] : j \in 1..Len(RefOrder)}

FallbackInit ==
    \E locals \in (SUBSET BranchUniverse) \ {{}} :
      \E checked_out \in locals :
        /\ heads = [n \in locals |-> Commit(LocalCommitId(n))]
        /\ tags = [n \in TagNames |-> TagCommitOf(n)]
        /\ remotes = <<>>
        /\ tracking = [n \in {} |-> NoName]
        /\ HEAD = checked_out
        /\ mergeHead = NoName
        /\ args = [patches |-> <<>>, base |-> checked_out,
                   output |-> N_out, cleanup |-> FALSE]
        /\ pc = "fallback_start"
        /\ i = 1
        /\ patch_branches = <<>>
        /\ k = 1
        /\ attempts = <<>>
        /\ merged_ok = 0
        /\ ops = <<>>
        /\ fallback_head = NoName
        /\ err = NoErr
        /\ result = "none"
        /\ initial = [heads |-> [n \in locals |-> Commit(LocalCommitId(n))],
                      HEAD |-> checked_out]
        /\ caught = "none"
        /\ call = [fn |-> "none"]

CallGetFallbackHead ==
    /\ pc = "fallback_start"
    /\ fallback_head' = get_fallback_head(heads)
    /\ ops' = Append(ops, Op("get_fallback_head", 0, get_fallback_head(heads)))
    /\ pc' = "fallback_called"
    /\ UNCHANGED <<repoVars, args, i, patch_branches, k, attempts, merged_ok,
                   err, result, initial, caught, call>>

FallbackNext == CallGetFallbackHead

FallbackSpec == FallbackInit /\ [][FallbackNext]_vars

\* The local branch that comes first in repo.heads.
FirstBranch(hs) ==
    CHOOSE n \in DOMAIN hs : \A m \in DOMAIN hs : Rank(n) <= Rank(m)

\* C13: in a repository with at least one local branch get_fallback_head
\* returns main if it exists, else master, else trunk, else the first branch
\* of the branch list; the branch it returns is a branch of the repository.
C13_FallbackPriority ==
    pc = "fallback_called" =>
        /\ fallback_head \in DOMAIN heads
        /\ fallback_head =
              IF N_main \in DOMAIN heads THEN N_main
              ELSE IF <<"master">> \in DOMAIN heads THEN <<"master">>
              ELSE IF <<"trunk">> \in DOMAIN heads THEN <<"trunk">>
              ELSE FirstBranch(heads)
        /\ err = NoErr

C13_Witness ==
    /\ pc = "fallback_called"
    /\ DOMAIN heads \cap {N_main, <<"master">>, <<"trunk">>} = {}
    /\ Cardinality(DOMAIN heads) >= 2
    /\ fallback_head = FirstBranch(heads)

----------------------------------------------------------------------------
(* Return value, lookup order and base resolution *)

Locating == pc = "locate" /\ ops' # ops

\* The step resolved the patch from the local branches alone: one lookup, no
\* remote search, no new branch.
ResolvedLocally ==
    /\ ops' = Append(ops, Op("get_local_head", i, BranchOf(i)))
    /\ patch_branches' =
          Append(patch_branches, <<args.patches[i], BranchOf(i)>>)
    /\ UNCHANGED <<heads, tracking>>

\* The step looked the name up locally and then searched the remotes.
SearchedRemotes ==
    /\ Len(ops') >= Len(ops) + 2
    /\ ops'[Len(ops) + 1] = Op("get_local_head", i, BranchOf(i))
    /\ ops'[Len(ops) + 2] = Op("get_remote_ref", i, BranchOf(i))

\* No reference of any remote is taken for the name by get_remote_ref.
NoRemoteCandidate(name) ==
    \A r \in 1..Len(remotes) : \A q \in 1..Len(remotes[r].refs) :
        ~RefMatches(remotes[r].refs[q], name)

\* C15 as stated: each patch is resolved locally first, among the local
\* branches and then the local tags, and the remotes are searched only when
\* the name is neither.
C15_BranchesThenTagsThenRemotes ==
    [][Locating =>
          IF BranchOf(i) \in DOMAIN heads \/ BranchOf(i) \in DOMAIN tags
          THEN ResolvedLocally
          ELSE SearchedRemotes]_vars

\* C15 amended: each patch is resolved among the local branches first (the
\* local tags are not consulted); the remotes, all of them, are searched
\* exactly when no local branch has the name, and a name that is a local
\* branch is resolved without remote search and without creating a branch.
C15_LocalBranchesThenRemotes ==
    [][Locating =>
          IF BranchOf(i) \in DOMAIN heads
          THEN ResolvedLocally
          ELSE /\ SearchedRemotes
               /\ (pc' = "exit1" /\ err'.type = "UnknownBranchError") =>
                     NoRemoteCandidate(BranchOf(i))]_vars

C15_Witness ==
    /\ pc = "create"
    /\ Len(ops) = 4
    /\ ops[1].name \in DOMAIN initial.heads
    /\ ops[3].op = "get_remote_ref"
    /\ ops[3].name \notin DOMAIN initial.heads

\* C16: get_local_base_object gives the local branch whenever one is named
\* base, also when a tag has that name, and the tag only when no branch has
\* it; the output branch is created at the branch's commit when both exist.
C16_BranchBeforeTag ==
    /\ \A base \in Bases :
          LET found == get_local_base_object(heads, tags, base)
          IN /\ base \in DOMAIN heads =>
                   (found.kind = "head" /\ found.commit = heads[base])
             /\ (base \notin DOMAIN heads /\ base \in DOMAIN tags) =>
                   (found.kind = "tag" /\ found.commit = tags[base])
    /\ (pc = "write" /\ args.base \in DOMAIN heads) =>
          heads[args.output] = heads[args.base]

C16_Witness ==
    /\ pc = "write"
    /\ args.base \in DOMAIN heads
    /\ args.base \in DOMAIN tags
    /\ heads[args.output] # tags[args.base]

\* The one reference, among the remotes the call searches, whose short name
\* is the name asked for.
OnlyMatch == ExposedRef(CHOOSE r \in ExposingSearched : TRUE, call.ref_name)

\* C17: when exactly one reference of the searched remotes matches ref_name,
\* get_remote_ref returns the local branch ref_name, created at that
\* reference's commit and tracking it, and the checked-out branch is as
\* before.
C17_UniqueMatchMaterialized ==
    (Called /\ Cardinality(ExposingSearched) = 1
            /\ call.status \in {"found", "none"}) =>
        /\ call.returned = call.ref_name
        /\ DOMAIN heads = DOMAIN call.before \cup {call.ref_name}
        /\ heads[call.ref_name] = OnlyMatch.commit
        /\ call.ref_name \in DOMAIN tracking
        /\ tracking[call.ref_name] = OnlyMatch.name
        /\ HEAD = initial.HEAD

\* C18: when no reference of the searched remotes matches ref_name (no
\* remotes, the named remote not configured, or the name not exposed),
\* get_remote_ref returns None without raising and creates no branch.
C18_NoMatchReturnsNone ==
    (Called /\ ExposingSearched = {}) =>
        /\ call.status = "none"
        /\ call.returned = NoName
        /\ heads = call.before
        /\ call.ref_name \notin DOMAIN tracking
        /\ HEAD = initial.HEAD

\* create_output_branch is about to run with a base that is neither a local
\* branch nor a local tag.
BaseUnknown ==
    /\ pc = "create"
    /\ args.base \notin DOMAIN heads
    /\ args.base \notin DOMAIN tags

----------------------------------------------------------------------------
(* Order of the steps of merge_init *)

\* The step is a repo.git.merge call.
MergeAttempted == Len(attempts') > Len(attempts)

\* Every patch has its pair in patch_branches, each with a local branch.
AllLocated ==
    /\ Len(patch_branches) = Len(args.patches)
    /\ \A j \in 1..Len(args.patches) :
          /\ patch_branches[j][1] = args.patches[j]
          /\ patch_branches[j][2] \in DOMAIN heads

\* The manifest has been committed onto the output branch.
ManifestCommitted ==
    /\ args.output \in DOMAIN heads
    /\ heads[args.output].manifest
    /\ \E q \in 1..Len(ops) : ops[q] = Op("commit", 0, args.output)

\* C20: a merge is attempted only when every patch has been located, the
\* output branch exists and the manifest has been committed onto it; a run
\* that ends in one of these three steps has attempted no merge and takes no
\* further step.
C20_MergeOnlyAfterSetup ==
    [][/\ MergeAttempted =>
             (AllLocated /\ ManifestCommitted /\ HEAD = args.output)
       /\ pc' = "exit1" => attempts' = <<>>
       /\ pc # "exit1"]_vars

C20_Witness ==
    /\ Len(attempts) = 1
    /\ merged_ok = 1
    /\ args.output \in DOMAIN heads
    /\ Len(heads[args.output].merged) = 1

----------------------------------------------------------------------------
(* Exit code of merge_init *)

Taxonomy ==
    {"UnknownBranchError", "MultipleRemoteReferences", "UnknownReferenceError",
     "BranchExistsError", "CheckoutError", "CommitError"}

\* A step of merge_init before the merging raised an error of the taxonomy.
SetupStepFailed ==
    /\ pc \in {"locate", "create", "write"}
    /\ err' # NoErr
    /\ err'.type \in Taxonomy

\* Every step and every merge of the run succeeded.
AllSucceeded ==
    /\ err = NoErr
    /\ caught = "none"
    /\ AllLocated
    /\ ManifestCommitted
    /\ merged_ok = Len(args.patches)

\* C21: a failure of get_patch_branches, create_output_branch or
\* write_patch_config_to_branch with an error of the taxonomy ends merge_init
\* with exit code 1, every error of the setup steps is of the taxonomy, and a
\* run in which every step and every merge succeeded ends with exit code 0.
C21_ExitCodes ==
    [][/\ SetupStepFailed => (pc' \in Ended /\ ExitCode(pc') = 1)
       /\ (pc \in {"locate", "create", "write"} /\ err' # NoErr) =>
             err'.type \in Taxonomy
       /\ (pc' \in Ended /\ AllSucceeded') => ExitCode(pc') = 0
       /\ (pc = "merging" /\ AllSucceeded') => pc' = "returned"]_vars

C21_Witness ==
    /\ pc = "exit1"
    /\ err.type = "CommitError"
    /\ ExitCode(pc) = 1

----------------------------------------------------------------------------
(* The cleanup sequence *)

\* The positions in the log of the git operations of the given kind.
OpsAt(kind) == {q \in 1..Len(ops) : ops[q].op = kind}

\* C22: after a failed merge the cleanup issues merge --abort,
\* get_fallback_head, the checkout of the fallback and branch -D of the output
\* branch in that order, next to each other and each at most once; the abort
\* follows the failed merge, and branch -D is issued only with the fallback
\* checked out.
C22_CleanupOrder ==
    /\ \A kind \in {"merge_abort", "get_fallback_head", "branch_D"} :
          Cardinality(OpsAt(kind)) <= 1
    /\ \A q \in OpsAt("merge_abort") :
          /\ q > 1
          /\ ops[q - 1] = Op("merge", FailedEntry, attempts[FailedEntry].branch)
          /\ MergeFailed
          /\ \A r \in OpsAt("merge") : r < q
          /\ Cardinality({r \in OpsAt("checkout") : r > q}) <= 1
    /\ \A q \in OpsAt("get_fallback_head") :
          /\ ops[q - 1].op = "merge_abort"
          /\ ops[q].name = fallback_head
    /\ \A q \in OpsAt("checkout") :
          (\E r \in OpsAt("merge_abort") : r < q) =>
              /\ ops[q - 1].op = "get_fallback_head"
              /\ ops[q].name = fallback_head
    /\ \A q \in OpsAt("branch_D") :
          /\ q = Len(ops)
          /\ q > 3
          /\ ops[q] = Op("branch_D", 0, args.output)
          /\ ops[q - 1] = Op("checkout", 0, fallback_head)
          /\ ops[q - 2].op = "get_fallback_head"
          /\ ops[q - 3].op = "merge_abort"
          /\ HEAD = fallback_head
    /\ pc = "delete" => HEAD = fallback_head

C22_Witness ==
    /\ pc = "returned"
    /\ OpsAt("branch_D") # {}
    /\ Len(attempts) = 2

----------------------------------------------------------------------------
(* patches.py: Patch records and their configuration dictionaries.  A      *)
(* dictionary is the list of its <<key, value>> items in insertion order.  *)

FieldValues == {"a", "b"}

\* The Patch dataclass with its five fields.
PatchRecords ==
    [title : FieldValues, description : FieldValues, upstream_pr : FieldValues,
     downstream_branch : FieldValues, fixed_version : FieldValues]

\* patch_dict[key] = value
DictSet(d, key, value) ==
    IF \E q \in 1..Len(d) : d[q][1] = key
    THEN [q \in 1..Len(d) |-> IF d[q][1] = key THEN <<key, value>> ELSE d[q]]
    ELSE Append(d, <<key, value>>)

\* patch_dict[key]
DictGet(d, key) == d[CHOOSE q \in 1..Len(d) : d[q][1] = key][2]

\* list(patch_dict.keys())
DictKeys(d) == [q \in 1..Len(d) |-> d[q][1]]

from_dict_to_patch_swapped(patch_dict) ==
    [title |-> DictGet(patch_dict, "title"),
     description |-> DictGet(patch_dict, "description"),
     upstream_pr |-> DictGet(patch_dict, "downstreamBranch"),
     downstream_branch |-> DictGet(patch_dict, "upstreamPR"),
     fixed_version |-> DictGet(patch_dict, "fixedVersion")]

from_dict_to_patch(patch_dict) ==
    [title |-> DictGet(patch_dict, "title"),
     description |-> DictGet(patch_dict, "description"),
     upstream_pr |-> DictGet(patch_dict, "upstreamPR"),
     downstream_branch |-> DictGet(patch_dict, "downstreamBranch"),
     fixed_version |-> DictGet(patch_dict, "fixedVersion")]

from_patch_to_dict(patch) ==
    LET d1 == DictSet(<<>>, "title", patch.title)
        d2 == DictSet(d1, "description", patch.description)
        d3 == DictSet(d2, "upstreamPR", patch.upstream_pr)
        d4 == DictSet(d3, "downstreamBranch", patch.downstream_branch)
        d5 == DictSet(d4, "fixedVersion", patch.fixed_version)
    IN d5

\* A list of at most MaxPatches patches is about to be converted.
PatchInit ==
    \E ps \in UNION {[1..n -> PatchRecords] : n \in 0..MaxPatches} :
        /\ heads = [n \in {N_main} |-> Commit(LocalCommitId(n))]
        /\ tags = [n \in TagNames |-> TagCommitOf(n)]
        /\ remotes = <<>>
        /\ tracking = [n \in {} |-> NoName]
        /\ HEAD = N_main
        /\ mergeHead = NoName
        /\ args = [patches |-> <<>>, base |-> N_main,
                   output |-> N_out, cleanup |-> FALSE]
        /\ pc = "patches_start"
        /\ i = 1
        /\ patch_branches = <<>>
        /\ k = 1
        /\ attempts = <<>>
        /\ merged_ok = 0
        /\ ops = <<>>
        /\ fallback_head = NoName
        /\ err = NoErr
        /\ result = "none"
        /\ initial = [heads |-> [n \in {N_main} |-> Commit(LocalCommitId(n))],
                      HEAD |-> N_main]
        /\ caught = "none"
        /\ call = [fn |-> "patches", patches |-> ps, patch_dicts |-> <<>>,
                   loaded |-> <<>>]

\* patch_dicts = [from_patch_to_dict(patch) for patch in patches]
ConvertToDicts ==
    /\ pc = "patches_start"
    /\ call' = [call EXCEPT !.patch_dicts =
                   [j \in 1..Len(call.patches) |->
                       from_patch_to_dict(call.patches[j])]]
    /\ pc' = "patches_dumped"
    /\ UNCHANGED <<repoVars, runVars, args, initial, caught>>

\* [from_dict_to_patch(patch) for patch in patches_yaml]
ConvertToPatches ==
    /\ pc = "patches_dumped"
    /\ call' = [call EXCEPT !.loaded =
                   [j \in 1..Len(call.patch_dicts) |->
                       from_dict_to_patch(call.patch_dicts[j])]]
    /\ pc' = "patches_loaded"
    /\ UNCHANGED <<repoVars, runVars, args, initial, caught>>

PatchNext == ConvertToDicts \/ ConvertToPatches

PatchSpec == PatchInit /\ [][PatchNext]_vars

ConfigKeys ==
    <<"title", "description", "upstreamPR", "downstreamBranch", "fixedVersion">>

\* C23: a list of patches converted with from_patch_to_dict and back with
\* from_dict_to_patch is the list that was converted, record for record and
\* field for field, and each dictionary has the keys title, description,
\* upstreamPR, downstreamBranch, fixedVersion in this order, holding the
\* fields' values.
C23_RoundTrip ==
    /\ pc \in {"patches_dumped", "patches_loaded"} =>
          /\ Len(call.patch_dicts) = Len(call.patches)
          /\ \A j \in 1..Len(call.patches) :
                /\ DictKeys(call.patch_dicts[j]) = ConfigKeys
                /\ call.patch_dicts[j][1][2] = call.patches[j].title
                /\ call.patch_dicts[j][3][2] = call.patches[j].upstream_pr
                /\ call.patch_dicts[j][4][2] =
                      call.patches[j].downstream_branch
    /\ pc = "patches_loaded" => call.loaded = call.patches

C23_Witness ==
    /\ pc = "patches_loaded"
    /\ Len(call.loaded) = 2
    /\ call.loaded[1] # call.loaded[2]
    /\ call.loaded[1].upstream_pr # call.loaded[1].downstream_branch

----------------------------------------------------------------------------
(* merge_patches_into_output called on any repository: the output branch   *)
(* may have any name, and main need not exist.                             *)

MergeOutputs == {N_out, N_main, N_fx}

\* The pairs of a list of patch branches.
MkPatchBranches(branches) ==
    [j \in 1..Len(branches) |-> <<Patch(j, branches[j]), branches[j]>>]

MergeInit ==
    \E output \in MergeOutputs, clean_up \in BOOLEAN :
    \E others \in SUBSET ({N_main, N_x, N_y} \ {output}) :
    \E branches \in UNION {[1..n -> others] : n \in 0..MaxPatches},
       checked_out \in others \cup {output} :
        /\ heads = [n \in others \cup {output} |->
                       IF n = output
                       THEN ManifestCommit(Commit(LocalCommitId(n)))
                       ELSE Commit(LocalCommitId(n))]
        /\ tags = [n \in TagNames |-> TagCommitOf(n)]
        /\ remotes = <<>>
        /\ tracking = [n \in {} |-> NoName]
        /\ HEAD = checked_out
        /\ mergeHead = NoName
        /\ args = [patches |-> MkPatches(branches), base |-> N_main,
                   output |-> output, cleanup |-> clean_up]
        /\ pc = "merge_checkout"
        /\ i = Len(branches) + 1
        /\ patch_branches = MkPatchBranches(branches)
        /\ k = 1
        /\ attempts = <<>>
        /\ merged_ok = 0
        /\ ops = <<>>
        /\ fallback_head = NoName
        /\ err = NoErr
        /\ result = "none"
        /\ initial = [heads |-> [n \in others \cup {output} |->
                                    IF n = output
                                    THEN ManifestCommit(Commit(LocalCommitId(n)))
                                    ELSE Commit(LocalCommitId(n))],
                      HEAD |-> checked_out]
        /\ caught = "none"
        /\ call = [fn |-> "none"]

MergeNext ==
    \/ MergeCheckout
    \/ MergeStep
    \/ CleanupAbort
    \/ CleanupCheckout
    \/ CleanupDelete

MergeSpec == MergeInit /\ [][MergeNext]_vars

\* C24: the branch get_fallback_head chooses during the cleanup is never the
\* output branch, so branch -D is never issued against the checked-out
\* branch.
C24_FallbackIsNotOutput ==
    /\ OpsAt("get_fallback_head") # {} => fallback_head # args.output
    /\ OpsAt("branch_D") # {} => HEAD # args.output

----------------------------------------------------------------------------
(* What a failed run of merge_init leaves behind *)

\* C25: when merge_init ends with exit code 1 the output branch exists only
\* if it existed before the run.
C25_ExitLeavesNoOutput ==
    (pc \in Ended /\ ExitCode(pc) = 1) =>
        (args.output \in DOMAIN heads => args.output \in DOMAIN initial.heads)

\* The cleanup after a failed merge ran to its end.
CleanupCompleted ==
    /\ pc = "returned"
    /\ args.cleanup
    /\ MergeFailed
    /\ OpsAt("branch_D") # {}

\* C26: after a run with --cleanup whose merge failed and whose cleanup
\* completed, the local branches and their tips are those before the run.
C26_CleanupRestoresBranches ==
    CleanupCompleted => heads = initial.heads

----------------------------------------------------------------------------
(* States in which merge_patches_into_output ends *)

\* C27: when merge_patches_into_output returns True the output branch exists
\* and is checked out, no merge is in progress, each entry of patch_branches
\* has been merged into it once, in list order, and no abort, fallback
\* lookup, fallback checkout or branch deletion took place.
C27_TrueMeansAllMerged ==
    result = "True" =>
        /\ pc = "returned"
        /\ args.output \in DOMAIN heads
        /\ HEAD = args.output
        /\ mergeHead = NoName
        /\ attempts = [j \in 1..Len(patch_branches) |->
                          [entry |-> j, branch |-> patch_branches[j][2]]]
        /\ heads[args.output].merged =
              [j \in 1..Len(patch_branches) |->
                  heads[patch_branches[j][2]].base]
        /\ Cardinality(OpsAt("merge")) = Len(patch_branches)
        /\ OpsAt("merge_abort") = {}
        /\ OpsAt("get_fallback_head") = {}
        /\ OpsAt("branch_D") = {}
        /\ \A q \in OpsAt("checkout") : ops[q].name = args.output
        /\ DOMAIN heads = DOMAIN initial.heads

C27_Witness ==
    /\ result = "True"
    /\ Len(patch_branches) = 2
    /\ patch_branches[1][2] # patch_branches[2][2]
    /\ HEAD # initial.HEAD

\* C28: merge_patches_into_output creates no branch, deletes no branch but
\* the output branch, and moves no branch but the output branch: in every
\* state of a run every other branch the repository had when the function was
\* called exists and points to the commit it pointed to then.
C28_OnlyOutputChanges ==
    /\ DOMAIN heads \subseteq DOMAIN initial.heads
    /\ DOMAIN initial.heads \ DOMAIN heads \subseteq {args.output}
    /\ \A n \in DOMAIN initial.heads \ {args.output} :
          /\ n \in DOMAIN heads
          /\ heads[n] = initial.heads[n]

C28_Witness ==
    /\ pc = "returned"
    /\ MergeFailed
    /\ merged_ok = 1
    /\ args.output \notin DOMAIN heads
    /\ Cardinality(DOMAIN heads) = 2

----------------------------------------------------------------------------
(* get_patch_branches called a second time with the same patches on the    *)
(* repository the first call left.                                         *)

CallAgain ==
    /\ pc = "create"
    /\ call.fn = "none"
    /\ call' = [fn |-> "get_patch_branches", returned |-> patch_branches,
                before |-> heads, tracked |-> tracking, logged |-> Len(ops)]
    /\ i' = 1
    /\ patch_branches' = <<>>
    /\ pc' = IF Len(args.patches) = 0 THEN "create" ELSE "locate"
    /\ UNCHANGED <<repoVars, args, k, attempts, merged_ok, ops,
                   fallback_head, err, result, initial, caught>>

LocateNext ==
    \/ Begin
    \/ LocatePatch
    \/ CallAgain

LocateSpec == Init /\ [][LocateNext]_vars

\* C29: a second call of get_patch_branches with the same patches, after a
\* first call that succeeded, does not raise, returns the pairs the first
\* call returned, in the same order, creates no branch and does not search
\* the remotes.
C29_LocateIsIdempotent ==
    call.fn = "get_patch_branches" =>
        /\ pc \in {"locate", "create"}
        /\ err = NoErr
        /\ heads = call.before
        /\ tracking = call.tracked
        /\ \A q \in (call.logged + 1)..Len(ops) : ops[q].op = "get_local_head"
        /\ pc = "locate" =>
              patch_branches = SubSeq(call.returned, 1, Len(patch_branches))
        /\ pc = "create" =>
              /\ patch_branches = call.returned
              /\ Len(ops) = call.logged + Len(args.patches)

C29_Witness ==
    /\ call.fn = "get_patch_branches"
    /\ pc = "create"
    /\ Len(patch_branches) = 2
    /\ patch_branches[1][2] = patch_branches[2][2]
    /\ patch_branches[1][2] \notin DOMAIN initial.heads

\* The four states in which a run of merge_patches_into_output may end.
CheckoutFailed == caught = "CheckoutError" /\ result = "False"

Succeeded == caught = "none" /\ result = "True"

LeftDirty ==
    /\ caught = "CommandError"
    /\ result = "False"
    /\ ~args.cleanup
    /\ mergeHead # NoName
    /\ args.output \in DOMAIN heads

CleanedUp ==
    /\ caught = "CommandError"
    /\ result = "False"
    /\ args.cleanup
    /\ mergeHead = NoName
    /\ args.output \notin DOMAIN heads

\* How many of the four the state is in.
EndStates ==
    Cardinality({n \in {"CheckoutFailed", "Succeeded", "LeftDirty", "CleanedUp"} :
        \/ n = "CheckoutFailed" /\ CheckoutFailed
        \/ n = "Succeeded" /\ Succeeded
        \/ n = "LeftDirty" /\ LeftDirty
        \/ n = "CleanedUp" /\ CleanedUp})

\* C30: a run of merge_patches_into_output makes at most len(patch_branches)
\* merge attempts, ends in exactly one of the states checkout-failed,
\* Succeeded, LeftDirty and CleanedUp, and attempts no merge once one has
\* failed.
C30_EndsInOneEndState ==
    /\ Len(attempts) <= Len(patch_branches)
    /\ pc \in Ended => EndStates = 1
    /\ MergeFailed => pc # "merging"

----------------------------------------------------------------------------
(* The two entry points from the call of merge_patches_into_output on:     *)
(* commands.merge_init, which calls the function of git_operations.py, and *)
(* run of mudpatch/mud.py, which calls the function of operations.py.      *)

EntryPoints == {"merge_init", "run"}

\* Where the entry point's call of merge_patches_into_output starts.
EntryStart(entry) ==
    IF entry = "merge_init" THEN "merge_checkout" ELSE "run_checkout"

RunInit ==
    \E output \in MergeOutputs, clean_up \in BOOLEAN, entry \in EntryPoints :
    \E others \in SUBSET ({N_main, N_x, N_y} \ {output}) :
    \E branches \in UNION {[1..n -> others] : n \in 0..MaxPatches},
       checked_out \in others \cup {output} :
        /\ heads = [n \in others \cup {output} |-> Commit(LocalCommitId(n))]
        /\ tags = [n \in TagNames |-> TagCommitOf(n)]
        /\ remotes = <<>>
        /\ tracking = [n \in {} |-> NoName]
        /\ HEAD = checked_out
        /\ mergeHead = NoName
        /\ args = [patches |-> MkPatches(branches), base |-> N_main,
                   output |-> output, cleanup |-> clean_up]
        /\ pc = EntryStart(entry)
        /\ i = Len(branches) + 1
        /\ patch_branches = MkPatchBranches(branches)
        /\ k = 1
        /\ attempts = <<>>
        /\ merged_ok = 0
        /\ ops = <<>>
        /\ fallback_head = NoName
        /\ err = NoErr
        /\ result = "none"
        /\ initial = [heads |-> [n \in others \cup {output} |->
                                    Commit(LocalCommitId(n))],
                      HEAD |-> checked_out]
        /\ caught = "none"
        /\ call = [fn |-> entry]

\* operations.merge_patches_into_output: output_branch.checkout(); a
\* GitCommandError makes the function return None.  With no patch to merge
\* the loop is skipped and the function body ends, which returns None.
OperationsCheckout ==
    /\ pc = "run_checkout"
    /\ ops' = Append(ops, Op("checkout", 0, args.output))
    /\ \E checkout \in GitOutcomes :
        IF checkout = "fail"
        THEN /\ caught' = "GitCommandError"
             /\ result' = "None"
             /\ pc' = "returned"
             /\ UNCHANGED HEAD
        ELSE /\ HEAD' = args.output
             /\ IF Len(patch_branches) = 0
                THEN result' = "None" /\ pc' = "returned"
                ELSE result' = result /\ pc' = "run_merging"
             /\ UNCHANGED caught
    /\ UNCHANGED <<heads, tags, remotes, tracking, mergeHead, args, i,
                   patch_branches, k, attempts, merged_ok, fallback_head,
                   err, initial, call>>

\* operations.merge_patches_into_output: one iteration of the loop.  After
\* the last entry the function body ends: there is no return statement, so
\* None is returned.
OperationsMerge ==
    /\ pc = "run_merging"
    /\ k <= Len(patch_branches)
    /\ LET patch_branch == patch_branches[k][2]
       IN /\ attempts' = Append(attempts,
                                  [entry |-> k, branch |-> patch_branch])
          /\ ops' = Append(ops, Op("merge", k, patch_branch))
          /\ \E merge \in GitOutcomes :
              IF merge = "ok"
              THEN /\ heads' = [heads EXCEPT ![HEAD] =
                                   MergeCommit(heads[HEAD], heads[patch_branch])]
                   /\ merged_ok' = merged_ok + 1
                   /\ k' = NextEntry(k)
                   /\ IF NextEntry(k) > Len(patch_branches)
                      THEN result' = "None" /\ pc' = "returned"
                      ELSE result' = result /\ pc' = "run_merging"
                   /\ UNCHANGED <<mergeHead, caught>>
              ELSE /\ mergeHead' = patch_branch
                   /\ caught' = "GitCommandError"
                   /\ pc' = IF args.cleanup THEN "run_abort" ELSE "returned"
                   /\ result' = IF args.cleanup THEN result ELSE "None"
                   /\ UNCHANGED <<heads, merged_ok, k>>
    /\ UNCHANGED <<tags, remotes, tracking, HEAD, args, i, patch_branches,
                   fallback_head, err, initial, call>>

\* operations.merge_patches_into_output: repo.git.merge(abort=True), then
\* get_fallback_head(repo).
OperationsAbort ==
    /\ pc = "run_abort"
    /\ \E abort \in GitOutcomes :
        IF abort = "fail"
        THEN /\ ops' = Append(ops, Op("merge_abort", 0, HEAD))
             /\ err' = [type |-> "GitCommandError", ref_name |-> HEAD]
             /\ pc' = "raised"
             /\ UNCHANGED <<mergeHead, fallback_head>>
        ELSE /\ mergeHead' = NoName
             /\ fallback_head' = get_fallback_head(heads)
             /\ ops' = ops \o <<Op("merge_abort", 0, HEAD),
                                Op("get_fallback_head", 0,
                                   get_fallback_head(heads))>>
             /\ pc' = "run_fallback_checkout"
             /\ UNCHANGED err
    /\ UNCHANGED <<heads, tags, remotes, tracking, HEAD, args, i,
                   patch_branches, k, attempts, merged_ok, result, initial,
                   caught, call>>

\* operations.merge_patches_into_output: fallback_head.checkout()
OperationsFallbackCheckout ==
    /\ pc = "run_fallback_checkout"
    /\ ops' = Append(ops, Op("checkout", 0, fallback_head))
    /\ \E checkout \in GitOutcomes :
        IF checkout = "fail"
        THEN /\ err' = [type |-> "GitCommandError", ref_name |-> fallback_head]
             /\ pc' = "raised"
             /\ UNCHANGED HEAD
        ELSE /\ HEAD' = fallback_head
             /\ pc' = "run_delete"
             /\ UNCHANGED err
    /\ UNCHANGED <<heads, tags, remotes, tracking, mergeHead, args, i,
                   patch_branches, k, attempts, merged_ok, fallback_head,
                   result, initial, caught, call>>

\* operations.merge_patches_into_output: repo.git.branch("-D",
\* output_branch), then return None.
OperationsDelete ==
    /\ pc = "run_delete"
    /\ ops' = Append(ops, Op("branch_D", 0, args.output))
    /\ \E delete \in GitOutcomes :
        IF delete = "fail" \/ HEAD = args.output
        THEN /\ err' = [type |-> "GitCommandError", ref_name |-> args.output]
             /\ pc' = "raised"
             /\ UNCHANGED <<heads, tracking, result>>
        ELSE /\ heads' = delete_head(heads, args.output)
             /\ tracking' = delete_head(tracking, args.output)
             /\ result' = "None"
             /\ pc' = "returned"
             /\ UNCHANGED err
    /\ UNCHANGED <<tags, remotes, HEAD, mergeHead, args, i, patch_branches,
                   k, attempts, merged_ok, fallback_head, initial, caught,
                   call>>

\* bool(result): True is true, False and None are false.
Truthy(value) == value = "True"

\* if result: LOG.info("Merging of patches has completed successfully"),
\* the last statement of both entry points.
LogResult ==
    /\ pc = "returned"
    /\ ops' = IF Truthy(result)
              THEN Append(ops, Op("log_success", 0, args.output))
              ELSE ops
    /\ pc' = "done"
    /\ UNCHANGED <<repoVars, args, i, patch_branches, k, attempts, merged_ok,
                   fallback_head, err, result, initial, caught, call>>

RunNext ==
    \/ MergeCheckout
    \/ MergeStep
    \/ CleanupAbort
    \/ CleanupCheckout
    \/ CleanupDelete
    \/ OperationsCheckout
    \/ OperationsMerge
    \/ OperationsAbort
    \/ OperationsFallbackCheckout
    \/ OperationsDelete
    \/ LogResult

RunSpec == RunInit /\ [][RunNext]_vars

\* The success message has been logged.
SuccessLogged == OpsAt("log_success") # {}

\* C31: in both entry points, when the entry point has ended the message
\* 'Merging of patches has completed successfully' has been logged exactly
\* if the checkout of the output branch and every merge succeeded; it is
\* never logged before the end.
C31_SuccessLoggedIffAllMerged ==
    /\ pc = "done" =>
          (SuccessLogged <=>
              (caught = "none" /\ merged_ok = Len(patch_branches)))
    /\ SuccessLogged => pc = "done"

====
